---- MODULE Spec2Model ----
(***************************************************************************)
(* Graph construction and network analytics of the Dallas traffic network  *)
(* analysis: build_graph (src/src/build_network.py),                       *)
(* compute_centrality_measures (src/src/centrality_analysis.py) and        *)
(* detect_communities (src/src/community_detection.py).                    *)
(*                                                                         *)
(* Four specifications share the module:                                   *)
(*   Spec            build_graph, one action per table row it iterates     *)
(*   CentralitySpec  compute_centrality_measures on a bounded digraph      *)
(*   CommunitySpec   detect_communities on a bounded digraph               *)
(*   AnalyticsSpec   either analytics operation on a bounded digraph       *)
(***************************************************************************)
EXTENDS Integers, Sequences, FiniteSets, TLC

VARIABLES
    \* ---- build_graph ----
    weight_type,      \* argument weight_type
    period,           \* argument period ("None" when not given)
    bpc,              \* position in build_graph
    berror,           \* exception that left build_graph ("none" if none)
    weight_col,       \* local weight_col ("unset" before resolution)
    nodes_df,         \* rows of nodes_df iterated so far
    links_df,         \* rows of links_df iterated so far
    G,                \* the nx.DiGraph under construction
    missing_weights,  \* local counter missing_weights
    \* ---- compute_centrality_measures (its argument is G) ----
    cpc,                     \* position in compute_centrality_measures
    cerror,                  \* exception that left it ("none" if none)
    degree_centrality,       \* local degree_centrality
    betweenness_centrality,  \* local betweenness_centrality
    base_component,          \* local base_component
    component_type,          \* local component_type ("unset" before selection)
    attempts,                \* local list attempts
    attempt_i,               \* index of the next element of attempts the loop takes
    calls,                   \* the calls of nx.eigenvector_centrality made so far
    eigenvector_centrality,  \* local eigenvector_centrality
    full_eigen,              \* local full_eigen
    result,                  \* the returned dict
    \* ---- detect_communities (its argument is G) ----
    community_louvain,  \* module global: "module" or "None" (import failed)
    run_gn_sample,      \* argument run_gn_sample
    gn_max_nodes,       \* argument gn_max_nodes
    dpc,                \* position in detect_communities
    derror,             \* exception that left it ("none" if none)
    undirected,         \* local undirected
    partition,          \* local partition
    sizes,              \* local sizes
    size_list,          \* local size_list
    num_communities,    \* local num_communities
    sub_nodes,          \* local sub_nodes
    gn_subgraph,        \* local subgraph
    first_split,        \* what next(gn_generator) gave
    gn_sizes,           \* local gn_sizes
    communities         \* the returned tuple

bvars == <<weight_type, period, bpc, berror, weight_col, nodes_df, links_df,
           missing_weights>>

cvars == <<cpc, cerror, degree_centrality, betweenness_centrality, base_component,
           component_type, attempts, attempt_i, calls, eigenvector_centrality,
           full_eigen, result>>

dvars == <<community_louvain, run_gn_sample, gn_max_nodes, dpc, derror,
           undirected, partition, sizes, size_list, num_communities, sub_nodes,
           gn_subgraph, first_split, gn_sizes, communities>>

vars == <<bvars, G, cvars, dvars>>

----------------------------------------------------------------------------
(* Bounds of the model *)

\* longest node table iterated
MaxNodeRows == 2
\* longest link table iterated
MaxLinkRows == 2
\* most nodes of a graph given to compute_centrality_measures
MaxGraphNodes == 3
\* most edges of a graph given to compute_centrality_measures (the complete
\* digraphs are given besides)
MaxGraphEdges == 3
\* most edges of a graph given to detect_communities
MaxCommunityEdges == 2

----------------------------------------------------------------------------
(* Values *)

\* A pandas float cell: a finite number, NaN, +inf or -inf.
Num(x) == [kind |-> "num", v |-> x]
NaN    == [kind |-> "nan", v |-> 0]
Inf    == [kind |-> "inf", v |-> 0]
NegInf == [kind |-> "ninf", v |-> 0]
\* Python None, what row.get returns for an absent column
None   == [kind |-> "none", v |-> 0]

\* Node_ID values of node rows, and the ids link rows may reference (an id is
\* a dangling reference when the node table iterated does not hold it).
NodeIds == {1, 2}
EndIds  == {1, 2}

\* The (weight_type, period) arguments build_graph is called with: the two
\* static modes, an unknown static mode, a period whose column exists (with
\* the default and with an unknown weight_type) and one whose column is absent.
Policies == {<<"freeflow", "None">>, <<"congested", "None">>, <<"fastest", "None">>,
             <<"congested", "AM">>, <<"fastest", "AM">>, <<"congested", "Night">>}

\* Columns of processed_links.csv after temporal_preprocessing has added the
\* period columns it was asked for (here: travel_time_AM only).
LinkColumns == {"Link_ID", "From_Node_ID", "To_Node_ID", "Length",
                "freeflow_time", "congested_time", "travel_time_AM"}

\* The (freeflow_time, congested_time, travel_time_AM) cells a link row may
\* carry: every column meets two distinct valid weights, NaN, zero, a negative
\* number and +inf.
TimeCycle == <<Num(1), Num(2), NaN, Num(0), Inf, Num(-1)>>
TimeCells ==
    { [ff |-> TimeCycle[i],
       cg |-> TimeCycle[(i % Len(TimeCycle)) + 1],
       tt |-> TimeCycle[((i + 1) % Len(TimeCycle)) + 1]] : i \in 1..Len(TimeCycle) }

\* The k-th link row of the table: Link_ID and Length identify the row.
LinkRow(k, u, v, t) ==
    [Link_ID |-> k, From_Node_ID |-> u, To_Node_ID |-> v, Length |-> Num(10 * k),
     freeflow_time |-> t.ff, congested_time |-> t.cg, travel_time_AM |-> t.tt]

\* The k-th node row of the table: its coordinates identify the row.
NodeRow(k, id) == [Node_ID |-> id, Lon |-> Num(k), Lat |-> Num(0 - k)]

----------------------------------------------------------------------------
(* Library and language primitives used by build_graph *)

\* int(x) of an integer cell (the id columns are integer columns)
PyInt(x) == x

\* pd.isna(weight)
pd_isna(w) == w.kind = "nan"

\* weight <= 0 on floats: false for NaN and +inf, true for -inf
le_zero(w) == \/ w.kind = "ninf"
              \/ w.kind = "num" /\ w.v <= 0

\* row.get(col, None)
row_get(row, col) == IF col \in DOMAIN row THEN row[col] ELSE None

\* f"travel_time_{period}"
period_col(p) == IF p = "AM" THEN "travel_time_AM" ELSE "travel_time_Night"

\* dict.update: keys of new replace those of old, other keys of old stay
dict_update(old, new) ==
    [k \in (DOMAIN old) \cup (DOMAIN new) |->
        IF k \in DOMAIN new THEN new[k] ELSE old[k]]

EmptyGraph == [node |-> <<>>, adj |-> <<>>]

\* A local that holds None or a dict of scores
NoMap == [none |-> TRUE, map |-> <<>>]
SomeMap(f) == [none |-> FALSE, map |-> f]

\* What compute_centrality_measures has returned (nothing yet)
NoResult == [returned |-> FALSE, degree |-> <<>>, betweenness |-> <<>>,
             eigenvector |-> <<>>]

\* A local that holds no graph yet, or a graph
NoGraph == [none |-> TRUE, g |-> EmptyGraph]
SomeGraph(g) == [none |-> FALSE, g |-> g]

\* A local that holds no list yet, or a list
NoList == [none |-> TRUE, list |-> <<>>]
SomeList(l) == [none |-> FALSE, list |-> l]

\* next(gn_generator) has not been called
NoSplit == [kind |-> "unset", comms |-> <<>>]

\* What detect_communities has returned (nothing yet)
NoCommunities == [returned |-> FALSE, partition |-> <<>>, num_communities |-> 0,
                  size_list |-> <<>>]

\* u in G
has_node(g, n) == n \in DOMAIN g.node

\* G.add_node(n, **attrs)
add_node(g, n, attrs) ==
    [g EXCEPT !.node =
        IF n \in DOMAIN g.node
        THEN [g.node EXCEPT ![n] = dict_update(g.node[n], attrs)]
        ELSE (n :> attrs) @@ g.node]

\* the nodes after G.add_edge(u, v): endpoints that are no nodes yet are added
\* without attributes
with_endpoints(g, u, v) ==
    [n \in (DOMAIN g.node) \cup {u, v} |->
        IF n \in DOMAIN g.node THEN g.node[n] ELSE <<>>]

\* (variant of add_edge: the attributes an edge already has win over the new)
add_edge_keep_first(g, u, v, attrs) ==
    [node |-> with_endpoints(g, u, v),
     adj  |-> IF <<u, v>> \in DOMAIN g.adj
              THEN [g.adj EXCEPT ![<<u, v>>] = dict_update(attrs, g.adj[<<u, v>>])]
              ELSE (<<u, v>> :> attrs) @@ g.adj]

\* G.add_edge(u, v, **attrs) on a DiGraph: one attribute dict per ordered pair,
\* updated in place when the pair is already an edge
add_edge(g, u, v, attrs) ==
    [node |-> with_endpoints(g, u, v),
     adj  |-> IF <<u, v>> \in DOMAIN g.adj
              THEN [g.adj EXCEPT ![<<u, v>>] = dict_update(g.adj[<<u, v>>], attrs)]
              ELSE (<<u, v>> :> attrs) @@ g.adj]

number_of_nodes(g) == Cardinality(DOMAIN g.node)
number_of_edges(g) == Cardinality(DOMAIN g.adj)

----------------------------------------------------------------------------
(* build_graph *)

\* (variant of resolve_weight_col: the period column is not looked up)
resolve_no_column_check(p, wt, columns) ==
    IF p # "None"
    THEN [err |-> "none", col |-> period_col(p)]
    ELSE IF wt \notin {"freeflow", "congested"}
         THEN [err |-> "ValueError", col |-> "unset"]
         ELSE [err |-> "none",
               col |-> IF wt = "freeflow" THEN "freeflow_time" ELSE "congested_time"]

\* lines 51-64: the weight column, or the exception raised
resolve_weight_col(p, wt, columns) ==
    IF p # "None"
    THEN IF period_col(p) \notin columns
         THEN [err |-> "KeyError", col |-> "unset"]
         ELSE [err |-> "none", col |-> period_col(p)]
    ELSE IF wt \notin {"freeflow", "congested"}
         THEN [err |-> "ValueError", col |-> "unset"]
         ELSE [err |-> "none",
               col |-> IF wt = "freeflow" THEN "freeflow_time" ELSE "congested_time"]

\* (variant of endpoint_missing: only the from-node is looked up)
endpoint_missing_from_only(g, u, v) == ~has_node(g, u)

\* line 86
endpoint_missing(g, u, v) == ~has_node(g, u) \/ ~has_node(g, v)

\* (variant of weight_rejected: the sign of the weight is not looked at)
weight_rejected_nan_only(w) == w = None \/ pd_isna(w)

\* line 91
weight_rejected(w) == w = None \/ pd_isna(w) \/ le_zero(w)

\* lines 96-104: the keyword arguments of add_edge
edge_attrs(row, w) ==
    [link_id |-> PyInt(row.Link_ID), length |-> row.Length,
     freeflow_time |-> row.freeflow_time, congested_time |-> row.congested_time,
     weight |-> w]

BInit ==
    /\ \E policy \in Policies :
        /\ weight_type = policy[1]
        /\ period = policy[2]
    /\ bpc = "resolve"
    /\ berror = "none"
    /\ weight_col = "unset"
    /\ nodes_df = <<>>
    /\ links_df = <<>>
    /\ G = EmptyGraph
    /\ missing_weights = 0

\* lines 51-66
Resolve ==
    /\ bpc = "resolve"
    /\ LET r == resolve_weight_col(period, weight_type, LinkColumns) IN
        /\ weight_col' = r.col
        /\ berror' = r.err
        /\ bpc' = IF r.err = "none" THEN "nodes" ELSE "raised"
    /\ UNCHANGED <<weight_type, period, nodes_df, links_df, G, missing_weights>>
    /\ UNCHANGED <<cvars, dvars>>

\* lines 70-76: one iteration over nodes_df
AddNode ==
    /\ bpc = "nodes"
    /\ Len(nodes_df) < MaxNodeRows
    /\ \E id \in NodeIds :
        LET row == NodeRow(Len(nodes_df) + 1, id) IN
        /\ nodes_df' = Append(nodes_df, row)
        /\ G' = add_node(G, PyInt(row.Node_ID), [lon |-> row.Lon, lat |-> row.Lat])
    /\ UNCHANGED <<weight_type, period, bpc, berror, weight_col, links_df,
                   missing_weights>>
    /\ UNCHANGED <<cvars, dvars>>

\* lines 79-80: nodes_df is exhausted
NodesDone ==
    /\ bpc = "nodes"
    /\ bpc' = "links"
    /\ missing_weights' = 0
    /\ UNCHANGED <<weight_type, period, berror, weight_col, nodes_df, links_df, G>>
    /\ UNCHANGED <<cvars, dvars>>

\* lines 81-104: one iteration over links_df
LinkStep ==
    /\ bpc = "links"
    /\ Len(links_df) < MaxLinkRows
    /\ \E u0 \in EndIds, v0 \in EndIds, t \in TimeCells :
        LET row == LinkRow(Len(links_df) + 1, u0, v0, t)
            u == PyInt(row.From_Node_ID)
            v == PyInt(row.To_Node_ID)
            weight == row_get(row, weight_col)
        IN
        /\ links_df' = Append(links_df, row)
        /\ \/ /\ endpoint_missing(G, u, v)
              /\ UNCHANGED <<G, missing_weights>>
           \/ /\ ~endpoint_missing(G, u, v)
              /\ weight_rejected(weight)
              /\ missing_weights' = missing_weights + 1
              /\ UNCHANGED G
           \/ /\ ~endpoint_missing(G, u, v)
              /\ ~weight_rejected(weight)
              /\ G' = add_edge(G, u, v, edge_attrs(row, weight))
              /\ UNCHANGED missing_weights
    /\ UNCHANGED <<weight_type, period, bpc, berror, weight_col, nodes_df>>
    /\ UNCHANGED <<cvars, dvars>>

\* lines 106-110: links_df is exhausted, G is returned
Return ==
    /\ bpc = "links"
    /\ bpc' = "returned"
    /\ UNCHANGED <<weight_type, period, berror, weight_col, nodes_df, links_df, G,
                   missing_weights>>
    /\ UNCHANGED <<cvars, dvars>>

\* compute_centrality_measures is not running
CIdle ==
    /\ cpc = "idle"
    /\ cerror = "none"
    /\ degree_centrality = NoMap
    /\ betweenness_centrality = NoMap
    /\ base_component = EmptyGraph
    /\ component_type = "unset"
    /\ attempts = <<>>
    /\ attempt_i = 0
    /\ calls = <<>>
    /\ eigenvector_centrality = NoMap
    /\ full_eigen = NoMap
    /\ result = NoResult

\* detect_communities is not running
DIdle ==
    /\ community_louvain = "module"
    /\ run_gn_sample = FALSE
    /\ gn_max_nodes = 1500
    /\ dpc = "idle"
    /\ derror = "none"
    /\ undirected = NoGraph
    /\ partition = NoMap
    /\ sizes = NoMap
    /\ size_list = NoList
    /\ num_communities = 0
    /\ sub_nodes = NoList
    /\ gn_subgraph = NoGraph
    /\ first_split = NoSplit
    /\ gn_sizes = NoList
    /\ communities = NoCommunities

Init == BInit /\ CIdle /\ DIdle

Next ==
    \/ Resolve
    \/ AddNode
    \/ NodesDone
    \/ LinkStep
    \/ Return

Spec == Init /\ [][Next]_vars

----------------------------------------------------------------------------
(* Graph primitives used by compute_centrality_measures *)

nodes(g) == DOMAIN g.node
edges(g) == DOMAIN g.adj

\* A score num/den
Frac(n, d) == [num |-> n, den |-> d]

\* G.degree() of a DiGraph: in-degree plus out-degree (a self-loop counts in both)
degree(g, n) ==
    Cardinality({e \in edges(g) : e[1] = n}) + Cardinality({e \in edges(g) : e[2] = n})

\* G.subgraph(S).copy()
subgraph(g, S) ==
    [node |-> [n \in S |-> g.node[n]],
     adj  |-> [e \in {x \in edges(g) : x[1] \in S /\ x[2] \in S} |-> g.adj[e]]]

\* G.to_undirected(): every edge in both directions; when (u,v) and (v,u) both
\* exist the data written last stays, which is that of the edge leaving the
\* later node in node order (node order: increasing id)
to_undirected(g) ==
    [node |-> g.node,
     adj  |-> [e \in edges(g) \cup {<<x[2], x[1]>> : x \in edges(g)} |->
                 LET hi == IF e[1] >= e[2] THEN e[1] ELSE e[2]
                     lo == IF e[1] >= e[2] THEN e[2] ELSE e[1]
                 IN IF <<hi, lo>> \in edges(g) THEN g.adj[<<hi, lo>>]
                    ELSE g.adj[<<lo, hi>>]]]

RECURSIVE Closure(_, _)
\* the nodes reached from S along the pairs of E
Closure(E, S) ==
    LET T == S \cup {e[2] : e \in {x \in E : x[1] \in S}}
    IN IF T = S THEN S ELSE Closure(E, T)

\* nx.strongly_connected_components(G)
strongly_connected_components(g) ==
    {{v \in Closure(edges(g), {u}) : u \in Closure(edges(g), {v})} : u \in nodes(g)}

\* nx.weakly_connected_components(G)
weakly_connected_components(g) ==
    {Closure(edges(g) \cup {<<x[2], x[1]>> : x \in edges(g)}, {u}) : u \in nodes(g)}

\* nx.is_strongly_connected(G), G not empty
is_strongly_connected(g) == Cardinality(strongly_connected_components(g)) = 1

\* max(components, key=len): the first of the largest in generation order,
\* any of the largest here
largest(components) ==
    {c \in components : \A d \in components : Cardinality(d) <= Cardinality(c)}

----------------------------------------------------------------------------
(* nx.degree_centrality and nx.betweenness_centrality *)

\* (variant of nx_degree_centrality: the out-degree alone)
degree_centrality_out_only(g) ==
    [n \in nodes(g) |->
        IF Cardinality(nodes(g)) <= 1 THEN Frac(1, 1)
        ELSE Frac(Cardinality({e \in edges(g) : e[1] = n}), Cardinality(nodes(g)) - 1)]

\* nx.degree_centrality(G): 1 for every node when len(G) <= 1, degree/(n-1)
\* otherwise
nx_degree_centrality(g) ==
    [n \in nodes(g) |->
        IF Cardinality(nodes(g)) <= 1 THEN Frac(1, 1)
        ELSE Frac(degree(g, n), Cardinality(nodes(g)) - 1)]

\* simple directed paths of at least one edge
SimplePaths(g) ==
    {p \in UNION {[1..k -> nodes(g)] : k \in 2..Cardinality(nodes(g))} :
        /\ \A i, j \in DOMAIN p : i # j => p[i] # p[j]
        /\ \A i \in 1..(Len(p) - 1) : <<p[i], p[i + 1]>> \in edges(g)}

RECURSIVE PathWeight(_, _)
PathWeight(g, p) ==
    IF Len(p) < 2 THEN 0
    ELSE g.adj[<<p[1], p[2]>>].weight.v + PathWeight(g, Tail(p))

\* Every count of shortest paths between two nodes divides BcScale.
BcScale == 3 * 4 * 5

RECURSIVE PairDependencies(_, _, _)
\* the sum over the ordered pairs (s, t) of pairs of the share of the shortest
\* s-t paths that have v inside, for every node v (scaled by BcScale)
PairDependencies(g, paths, pairs) ==
    IF pairs = {} THEN [v \in nodes(g) |-> 0]
    ELSE LET st       == CHOOSE x \in pairs : TRUE
             rest     == PairDependencies(g, paths, pairs \ {st})
             between  == {p \in paths : p[1] = st[1] /\ p[Len(p)] = st[2]}
             weights  == {PathWeight(g, p) : p \in between}
             shortest == {p \in between : \A w \in weights : PathWeight(g, p) <= w}
         IN [v \in nodes(g) |->
                rest[v] +
                (IF v \in {st[1], st[2]} \/ shortest = {} THEN 0
                 ELSE (BcScale * Cardinality({p \in shortest :
                                     \E i \in 2..(Len(p) - 1) : p[i] = v}))
                      \div Cardinality(shortest))]

\* nx.betweenness_centrality(G, weight="weight", normalized=True) on a DiGraph:
\* the sum over ordered pairs (s, t) of the share of the shortest s-t paths
\* with v inside, divided by (n-1)(n-2) when n > 2
nx_betweenness_centrality(g) ==
    LET n    == Cardinality(nodes(g))
        deps == PairDependencies(g, SimplePaths(g),
                                 {st \in nodes(g) \X nodes(g) : st[1] # st[2]})
    IN [v \in nodes(g) |->
           Frac(deps[v], IF n > 2 THEN BcScale * (n - 1) * (n - 2) ELSE BcScale)]

----------------------------------------------------------------------------
(* compute_centrality_measures *)

\* lines 72-73 and 85: the iteration caps, and the tolerances 1e-04 and 1e-03
\* by their exponents
MaxIter == 10000
TolExp == 4
RelaxedMaxIter == 20000
RelaxedTolExp == 3

\* The scores a converged power iteration may give a node
ScoreVals == {1, 2}

\* (variant of select_base: a graph that is not strongly connected goes to its
\* largest weakly connected component at once)
select_base_weak_first(g) ==
    IF is_strongly_connected(g)
    THEN {[base |-> g, type |-> "strongly"]}
    ELSE {[base |-> subgraph(g, wcc), type |-> "weakly"] :
            wcc \in largest(weakly_connected_components(g))}

\* lines 42-53: the (base_component, component_type) the selection may end with
select_base(g) ==
    IF is_strongly_connected(g)
    THEN {[base |-> g, type |-> "strongly"]}
    ELSE UNION {
        IF Cardinality(scc) > 1
        THEN {[base |-> subgraph(g, scc), type |-> "strongly"]}
        ELSE {[base |-> subgraph(g, wcc), type |-> "weakly"] :
                wcc \in largest(weakly_connected_components(g))}
        : scc \in largest(strongly_connected_components(g))}

\* lines 59-61: one element of attempts
Attempt(graph, use_weight) == [graph |-> graph, use_weight |-> use_weight]

\* (variant of build_attempts: nothing is inserted for a weak base)
build_attempts_no_insert(ctype) ==
    <<Attempt("directed", TRUE), Attempt("undirected", TRUE),
      Attempt("undirected", FALSE)>>

\* lines 58-64: the list attempts
build_attempts(ctype) ==
    LET three == <<Attempt("directed", TRUE), Attempt("undirected", TRUE),
                   Attempt("undirected", FALSE)>>
    IN IF ctype = "weakly"
       THEN <<Attempt("undirected", TRUE)>> \o three
       ELSE three

\* the graph an attempt passes to nx.eigenvector_centrality
graph_arg(base, a) == IF a.graph = "directed" THEN base ELSE to_undirected(base)

\* One call of nx.eigenvector_centrality
Call(a, max_iter, tol_exp) ==
    [graph |-> a.graph, use_weight |-> a.use_weight, max_iter |-> max_iter,
     tol_exp |-> tol_exp]

\* nx.eigenvector_centrality(subgraph, weight, max_iter, tol): either
\* PowerIterationFailedConvergence or a score for every node of subgraph.
\* Whether the iteration converges is the library's; a call repeated with the
\* same arguments ends the same way.
nx_eigenvector_centrality(g, c, made) ==
    LET failed_before == \E i \in DOMAIN made : made[i].call = c /\ ~made[i].ok
    IN {[ok |-> FALSE, scores |-> <<>>]}
       \cup (IF failed_before THEN {}
             ELSE {[ok |-> TRUE, scores |-> f] : f \in [nodes(g) -> ScoreVals]})

\* (variant of project_scores: the scores of the component are not written)
project_scores_zeros_only(g, scores) == [n \in nodes(g) |-> 0]

\* lines 92-93: zeros for every node of G, then the scores of the component
project_scores(g, scores) == dict_update([n \in nodes(g) |-> 0], scores)

\* lines 27-28
CheckEmpty ==
    /\ cpc = "start"
    /\ \/ /\ number_of_nodes(G) = 0
          /\ cerror' = "ValueError"
          /\ cpc' = "raised"
       \/ /\ number_of_nodes(G) # 0
          /\ cpc' = "degree"
          /\ UNCHANGED cerror
    /\ UNCHANGED <<bvars, dvars, G, degree_centrality, betweenness_centrality,
                   base_component, component_type, attempts, attempt_i, calls,
                   eigenvector_centrality, full_eigen, result>>

\* lines 30-33
ComputeDegree ==
    /\ cpc = "degree"
    /\ degree_centrality' = SomeMap(nx_degree_centrality(G))
    /\ cpc' = "betweenness"
    /\ UNCHANGED <<bvars, dvars, G, cerror, betweenness_centrality, base_component,
                   component_type, attempts, attempt_i, calls,
                   eigenvector_centrality, full_eigen, result>>

\* lines 35-38
ComputeBetweenness ==
    /\ cpc = "betweenness"
    /\ betweenness_centrality' = SomeMap(nx_betweenness_centrality(G))
    /\ cpc' = "select"
    /\ UNCHANGED <<bvars, dvars, G, cerror, degree_centrality, base_component,
                   component_type, attempts, attempt_i, calls,
                   eigenvector_centrality, full_eigen, result>>

\* lines 40-66
SelectBase ==
    /\ cpc = "select"
    /\ \E choice \in select_base(G) :
        /\ base_component' = choice.base
        /\ component_type' = choice.type
        /\ attempts' = build_attempts(choice.type)
    /\ eigenvector_centrality' = NoMap
    /\ attempt_i' = 1
    /\ cpc' = "loop"
    /\ UNCHANGED <<bvars, dvars, G, cerror, degree_centrality, betweenness_centrality,
                   calls, full_eigen, result>>

\* lines 67-78: one iteration of the loop over attempts
TryAttempt ==
    /\ cpc = "loop"
    /\ attempt_i <= Len(attempts)
    /\ LET a == attempts[attempt_i]
           c == Call(a, MaxIter, TolExp)
       IN \E out \in nx_eigenvector_centrality(graph_arg(base_component, a), c, calls) :
            /\ calls' = Append(calls, [call |-> c, ok |-> out.ok])
            /\ \/ /\ out.ok
                  /\ eigenvector_centrality' = SomeMap(out.scores)
                  /\ cpc' = "after_loop"
                  /\ UNCHANGED attempt_i
               \/ /\ ~out.ok
                  /\ attempt_i' = attempt_i + 1
                  /\ cpc' = IF attempt_i = Len(attempts) THEN "after_loop" ELSE "loop"
                  /\ UNCHANGED eigenvector_centrality
    /\ UNCHANGED <<bvars, dvars, G, cerror, degree_centrality, betweenness_centrality,
                   base_component, component_type, attempts, full_eigen, result>>

\* lines 80-89: the relaxed attempt when every attempt failed
RelaxedAttempt ==
    /\ cpc = "after_loop"
    /\ eigenvector_centrality.none
    /\ LET a == Attempt("undirected", FALSE)
           c == Call(a, RelaxedMaxIter, RelaxedTolExp)
       IN \E out \in nx_eigenvector_centrality(graph_arg(base_component, a), c, calls) :
            /\ calls' = Append(calls, [call |-> c, ok |-> out.ok])
            /\ \/ /\ out.ok
                  /\ eigenvector_centrality' = SomeMap(out.scores)
                  /\ cpc' = "project"
                  /\ UNCHANGED cerror
               \/ /\ ~out.ok
                  /\ cerror' = "RuntimeError"
                  /\ cpc' = "raised"
                  /\ UNCHANGED eigenvector_centrality
    /\ UNCHANGED <<bvars, dvars, G, degree_centrality, betweenness_centrality,
                   base_component, component_type, attempts, attempt_i, full_eigen,
                   result>>

\* line 80, an attempt had converged
SkipRelaxed ==
    /\ cpc = "after_loop"
    /\ ~eigenvector_centrality.none
    /\ cpc' = "project"
    /\ UNCHANGED <<bvars, dvars, G, cerror, degree_centrality, betweenness_centrality,
                   base_component, component_type, attempts, attempt_i, calls,
                   eigenvector_centrality, full_eigen, result>>

\* lines 91-96
Project ==
    /\ cpc = "project"
    /\ full_eigen' = SomeMap(project_scores(G, eigenvector_centrality.map))
    /\ cpc' = "return"
    /\ UNCHANGED <<bvars, dvars, G, cerror, degree_centrality, betweenness_centrality,
                   base_component, component_type, attempts, attempt_i, calls,
                   eigenvector_centrality, result>>

\* lines 98-102
ReturnScores ==
    /\ cpc = "return"
    /\ result' = [returned |-> TRUE, degree |-> degree_centrality.map,
                  betweenness |-> betweenness_centrality.map,
                  eigenvector |-> full_eigen.map]
    /\ cpc' = "returned"
    /\ UNCHANGED <<bvars, dvars, G, cerror, degree_centrality, betweenness_centrality,
                   base_component, component_type, attempts, attempt_i, calls,
                   eigenvector_centrality, full_eigen>>

\* The weight of the edge (u, v) of a graph given to compute_centrality_measures
EdgeWeight(u, v) == IF u < v THEN 1 ELSE 2

InputGraph(n, E) ==
    [node |-> [x \in 1..n |-> <<>>],
     adj  |-> [e \in E |-> [weight |-> Num(EdgeWeight(e[1], e[2]))]]]

\* every ordered pair of distinct nodes of 1..n
CompletePairs(n) == {e \in (1..n) \X (1..n) : e[1] # e[2]}

\* The graphs given to compute_centrality_measures: the digraphs (self-loops
\* allowed) on nodes 1..n with at most MaxGraphEdges edges, and the complete
\* digraphs
InputGraphs ==
    UNION {
        {InputGraph(n, E) :
            E \in {F \in SUBSET ((1..n) \X (1..n)) : Cardinality(F) <= MaxGraphEdges}}
        \cup {InputGraph(n, CompletePairs(n))}
        : n \in 0..MaxGraphNodes}

\* build_graph is over; compute_centrality_measures is entered with a graph
CInit ==
    /\ weight_type = "congested"
    /\ period = "None"
    /\ bpc = "returned"
    /\ berror = "none"
    /\ weight_col = "congested_time"
    /\ nodes_df = <<>>
    /\ links_df = <<>>
    /\ missing_weights = 0
    /\ G \in InputGraphs
    /\ cpc = "start"
    /\ cerror = "none"
    /\ degree_centrality = NoMap
    /\ betweenness_centrality = NoMap
    /\ base_component = EmptyGraph
    /\ component_type = "unset"
    /\ attempts = <<>>
    /\ attempt_i = 0
    /\ calls = <<>>
    /\ eigenvector_centrality = NoMap
    /\ full_eigen = NoMap
    /\ result = NoResult
    /\ DIdle

CNext ==
    \/ CheckEmpty
    \/ ComputeDegree
    \/ ComputeBetweenness
    \/ SelectBase
    \/ TryAttempt
    \/ RelaxedAttempt
    \/ SkipRelaxed
    \/ Project
    \/ ReturnScores

CentralitySpec == CInit /\ [][CNext]_vars

----------------------------------------------------------------------------
(* detect_communities *)

\* undirected.degree of an nx.Graph: the neighbours of n, a self-loop counted
\* twice
undirected_degree(g, n) ==
    Cardinality({e \in edges(g) : e[1] = n /\ e[2] # n})
      + (IF <<n, n>> \in edges(g) THEN 2 ELSE 0)

\* nx.connected_components(g) of an undirected graph
connected_components(g) == {Closure(edges(g), {u}) : u \in nodes(g)}

RECURSIVE in_node_order(_)
\* a family of disjoint node sets as a tuple, in the order in which node
\* iteration meets them (node order: increasing id)
in_node_order(Cs) ==
    IF Cs = {} THEN <<>>
    ELSE LET least(c) == CHOOSE x \in c : \A y \in c : x <= y
             first == CHOOSE c \in Cs : \A d \in Cs : least(c) <= least(d)
         IN <<first>> \o in_node_order(Cs \ {first})

RECURSIVE values_list(_)
\* list(d.values()) of a dict with integer keys
values_list(d) ==
    IF DOMAIN d = {} THEN <<>>
    ELSE LET k == CHOOSE x \in DOMAIN d : \A y \in DOMAIN d : x <= y
         IN <<d[k]>> \o values_list([y \in (DOMAIN d) \ {k} |-> d[y]])

RECURSIVE insert_descending(_, _)
insert_descending(x, l) ==
    IF l = <<>> THEN <<x>>
    ELSE IF x >= Head(l) THEN <<x>> \o l
    ELSE <<Head(l)>> \o insert_descending(x, Tail(l))

RECURSIVE sorted_reverse(_)
\* sorted(l, reverse=True)
sorted_reverse(l) ==
    IF l = <<>> THEN <<>> ELSE insert_descending(Head(l), sorted_reverse(Tail(l)))

\* (variant of calc_sizes: the sizes are listed unsorted)
calc_sizes_unsorted(p) ==
    LET sz == [c \in {p[n] : n \in DOMAIN p} |->
                  Cardinality({n \in DOMAIN p : p[n] = c})]
    IN [sizes |-> sz, size_list |-> values_list(sz)]

\* _calc_sizes(partition), lines 13-18
calc_sizes(p) ==
    LET sz == [c \in {p[n] : n \in DOMAIN p} |->
                  Cardinality({n \in DOMAIN p : p[n] = c})]
    IN [sizes |-> sz, size_list |-> sorted_reverse(values_list(sz))]

\* community_louvain.best_partition(undirected, weight="weight"): a dict that
\* gives every node of the graph a community id, the ids being 0..k-1 for k
\* communities. Which nodes share a community is the library's to decide and
\* is left open.
best_partition(g) ==
    {f \in [nodes(g) -> 0..(number_of_nodes(g) - 1)] :
        \A c \in 0..(number_of_nodes(g) - 1) :
            (\E n \in nodes(g) : f[n] = c) =>
                \A b \in 0..c : \E n \in nodes(g) : f[n] = b}

\* (variant of refinement_gate: a graph of exactly gn_max_nodes nodes is sampled
\* too)
refinement_gate_inclusive(run, g, max_nodes) ==
    run /\ number_of_nodes(g) >= max_nodes

\* line 41
refinement_gate(run, g, max_nodes) ==
    run /\ number_of_nodes(g) > max_nodes

RECURSIVE top_nodes(_, _, _)
\* sorted(undirected.degree, key=degree, reverse=True)[:k], the nodes of it:
\* the sort is stable, so nodes of equal degree stay in node order
top_nodes(g, S, k) ==
    IF k = 0 \/ S = {} THEN <<>>
    ELSE LET n == CHOOSE x \in S : \A y \in S :
                      \/ undirected_degree(g, x) > undirected_degree(g, y)
                      \/ /\ undirected_degree(g, x) = undirected_degree(g, y)
                         /\ x <= y
         IN <<n>> \o top_nodes(g, S \ {n}, k - 1)

\* the elements of a list
elements(l) == {l[i] : i \in DOMAIN l}

\* g without the edges of R (both directions of each)
without_edges(g, R) ==
    [node |-> g.node,
     adj  |-> [e \in edges(g) \ (R \cup {<<x[2], x[1]>> : x \in R}) |-> g.adj[e]]]

\* next(nx.algorithms.community.girvan_newman(g)), the outcomes: a graph
\* without edges yields its connected components; otherwise self-loops are
\* removed and, while edges remain, most central edges are removed until the
\* number of connected components grows by one, which yields the components;
\* with self-loops only, nothing is yielded. Which edges are the most central
\* is the library's to decide and is left open.
girvan_newman_first(g) ==
    IF edges(g) = {}
    THEN {[kind |-> "split", comms |-> in_node_order(connected_components(g))]}
    ELSE LET proper == {e \in edges(g) : e[1] # e[2]}
             loops  == edges(g) \ proper
             before == Cardinality(connected_components(g))
         IN IF proper = {}
            THEN {[kind |-> "StopIteration", comms |-> <<>>]}
            ELSE {[kind |-> "split",
                   comms |-> in_node_order(
                                connected_components(without_edges(g, R \cup loops)))] :
                    R \in {Q \in SUBSET proper :
                            Cardinality(connected_components(
                                without_edges(g, Q \cup loops))) = before + 1}}

\* line 51: {node: idx for idx, comm in enumerate(first_split) for node in comm}
gn_partition(split) ==
    [n \in UNION elements(split) |->
        (CHOOSE i \in DOMAIN split : n \in split[i]) - 1]

\* (variant of louvain_missing: the import is taken to have succeeded)
louvain_assumed_present(mod) == FALSE

\* line 28: community_louvain is None (lines 7-10: the import failed)
louvain_missing(mod) == mod = "None"

\* lines 22-23 (G is a graph here, never None)
DCheckEmpty ==
    /\ dpc = "start"
    /\ \/ /\ number_of_nodes(G) = 0
          /\ derror' = "ValueError"
          /\ dpc' = "raised"
       \/ /\ number_of_nodes(G) # 0
          /\ dpc' = "project"
          /\ UNCHANGED derror
    /\ UNCHANGED <<bvars, cvars, G, community_louvain, run_gn_sample, gn_max_nodes,
                   undirected, partition, sizes, size_list, num_communities,
                   sub_nodes, gn_subgraph, first_split, gn_sizes, communities>>

\* line 25
ToUndirected ==
    /\ dpc = "project"
    /\ undirected' = SomeGraph(to_undirected(G))
    /\ dpc' = "dependency"
    /\ UNCHANGED <<bvars, cvars, G, community_louvain, run_gn_sample, gn_max_nodes,
                   derror, partition, sizes, size_list, num_communities,
                   sub_nodes, gn_subgraph, first_split, gn_sizes, communities>>

\* lines 28-29
CheckDependency ==
    /\ dpc = "dependency"
    /\ \/ /\ louvain_missing(community_louvain)
          /\ derror' = "ImportError"
          /\ dpc' = "raised"
       \/ /\ ~louvain_missing(community_louvain)
          /\ dpc' = "louvain"
          /\ UNCHANGED derror
    /\ UNCHANGED <<bvars, cvars, G, community_louvain, run_gn_sample, gn_max_nodes,
                   undirected, partition, sizes, size_list, num_communities,
                   sub_nodes, gn_subgraph, first_split, gn_sizes, communities>>

\* line 32
BestPartition ==
    /\ dpc = "louvain"
    /\ \E p \in best_partition(undirected.g) : partition' = SomeMap(p)
    /\ dpc' = "sizes"
    /\ UNCHANGED <<bvars, cvars, G, community_louvain, run_gn_sample, gn_max_nodes,
                   derror, undirected, sizes, size_list, num_communities,
                   sub_nodes, gn_subgraph, first_split, gn_sizes, communities>>

\* lines 34-35
CalcSizes ==
    /\ dpc = "sizes"
    /\ LET r == calc_sizes(partition.map)
       IN /\ sizes' = SomeMap(r.sizes)
          /\ size_list' = SomeList(r.size_list)
          /\ num_communities' = Cardinality(DOMAIN r.sizes)
    /\ dpc' = "gate"
    /\ UNCHANGED <<bvars, cvars, G, community_louvain, run_gn_sample, gn_max_nodes,
                   derror, undirected, partition, sub_nodes, gn_subgraph,
                   first_split, gn_sizes, communities>>

\* line 41
RefinementGate ==
    /\ dpc = "gate"
    /\ dpc' = IF refinement_gate(run_gn_sample, undirected.g, gn_max_nodes)
              THEN "sample" ELSE "return"
    /\ UNCHANGED <<bvars, cvars, G, community_louvain, run_gn_sample, gn_max_nodes,
                   derror, undirected, partition, sizes, size_list,
                   num_communities, sub_nodes, gn_subgraph, first_split, gn_sizes,
                   communities>>

\* lines 44-46
SampleSubgraph ==
    /\ dpc = "sample"
    /\ LET top == top_nodes(undirected.g, nodes(undirected.g), gn_max_nodes)
       IN /\ sub_nodes' = SomeList(top)
          /\ gn_subgraph' = SomeGraph(subgraph(undirected.g, elements(top)))
    /\ dpc' = "split"
    /\ UNCHANGED <<bvars, cvars, G, community_louvain, run_gn_sample, gn_max_nodes,
                   derror, undirected, partition, sizes, size_list,
                   num_communities, first_split, gn_sizes, communities>>

\* lines 48-55
FirstSplit ==
    /\ dpc = "split"
    /\ \E out \in girvan_newman_first(gn_subgraph.g) :
          /\ first_split' = out
          /\ gn_sizes' = IF out.kind = "split"
                         THEN SomeList(calc_sizes(gn_partition(out.comms)).size_list)
                         ELSE gn_sizes
    /\ dpc' = "return"
    /\ UNCHANGED <<bvars, cvars, G, community_louvain, run_gn_sample, gn_max_nodes,
                   derror, undirected, partition, sizes, size_list,
                   num_communities, sub_nodes, gn_subgraph, communities>>

\* line 57
DReturn ==
    /\ dpc = "return"
    /\ communities' = [returned |-> TRUE, partition |-> partition.map,
                       num_communities |-> num_communities,
                       size_list |-> size_list.list]
    /\ dpc' = "returned"
    /\ UNCHANGED <<bvars, cvars, G, community_louvain, run_gn_sample, gn_max_nodes,
                   derror, undirected, partition, sizes, size_list,
                   num_communities, sub_nodes, gn_subgraph, first_split, gn_sizes>>

\* The arguments run_gn_sample and gn_max_nodes given to detect_communities
\* (1500 is the default of gn_max_nodes)
SamplePolicies ==
    {<<FALSE, 1>>, <<TRUE, 0>>, <<TRUE, 1>>, <<TRUE, 2>>, <<TRUE, 1500>>}

\* The graphs given to detect_communities
CommunityGraphs ==
    {g \in InputGraphs : number_of_edges(g) <= MaxCommunityEdges}

\* build_graph is over; detect_communities is entered with a graph
DInit ==
    /\ weight_type = "congested"
    /\ period = "None"
    /\ bpc = "returned"
    /\ berror = "none"
    /\ weight_col = "congested_time"
    /\ nodes_df = <<>>
    /\ links_df = <<>>
    /\ missing_weights = 0
    /\ G \in CommunityGraphs
    /\ CIdle
    /\ community_louvain \in {"module", "None"}
    /\ \E policy \in SamplePolicies :
          /\ run_gn_sample = policy[1]
          /\ gn_max_nodes = policy[2]
    /\ dpc = "start"
    /\ derror = "none"
    /\ undirected = NoGraph
    /\ partition = NoMap
    /\ sizes = NoMap
    /\ size_list = NoList
    /\ num_communities = 0
    /\ sub_nodes = NoList
    /\ gn_subgraph = NoGraph
    /\ first_split = NoSplit
    /\ gn_sizes = NoList
    /\ communities = NoCommunities

DNext ==
    \/ DCheckEmpty
    \/ ToUndirected
    \/ CheckDependency
    \/ BestPartition
    \/ CalcSizes
    \/ RefinementGate
    \/ SampleSubgraph
    \/ FirstSplit
    \/ DReturn

CommunitySpec == DInit /\ [][DNext]_vars

\* either analytics operation is invoked on the graph
AInit == CInit \/ DInit

ANext == CNext \/ DNext

AnalyticsSpec == AInit /\ [][ANext]_vars

----------------------------------------------------------------------------
(* The tables as the claims speak of them, read from the rows iterated *)

DistinctNodeIds == {nodes_df[i].Node_ID : i \in DOMAIN nodes_df}

RowPair(i) == <<links_df[i].From_Node_ID, links_df[i].To_Node_ID>>

\* the cell of row i in the resolved weight column
RowWeight(i) == links_df[i][weight_col]

\* row i references an id that is not in the node table
RowDangling(i) ==
    \/ links_df[i].From_Node_ID \notin DistinctNodeIds
    \/ links_df[i].To_Node_ID \notin DistinctNodeIds

\* the weight of row i is missing (NaN) or not positive
WeightMissingOrNonPositive(i) ==
    \/ RowWeight(i).kind \in {"nan", "none", "ninf"}
    \/ RowWeight(i).kind = "num" /\ RowWeight(i).v <= 0

\* the weight of row i is a finite, strictly positive number
WeightFinitePositive(i) == RowWeight(i).kind = "num" /\ RowWeight(i).v > 0

RowSkippedForWeight(i) == ~RowDangling(i) /\ WeightMissingOrNonPositive(i)

RowKept(i) == ~RowDangling(i) /\ ~WeightMissingOrNonPositive(i)

\* row i names an ordered pair that an earlier kept row already made an edge
RowOverwrites(i) ==
    /\ RowKept(i)
    /\ \E j \in 1..(i - 1) : RowKept(j) /\ RowPair(j) = RowPair(i)

Count(P(_)) == Cardinality({i \in DOMAIN links_df : P(i)})

\* what add_edge is given for row i
RowAttrs(i) ==
    [link_id |-> links_df[i].Link_ID, length |-> links_df[i].Length,
     freeflow_time |-> links_df[i].freeflow_time,
     congested_time |-> links_df[i].congested_time,
     weight |-> RowWeight(i)]

\* an edge of G made from row i
EdgeFromRow(i) == \E e \in DOMAIN G.adj : G.adj[e].link_id = links_df[i].Link_ID

Building == bpc \in {"links", "returned"}

----------------------------------------------------------------------------
(* C1 *)

\* C1 (as stated): the node count is the number of distinct Node_ID values and
\* the edge count is the link row count minus the dangling-endpoint skips and
\* the invalid-weight skips.
C1_Original ==
    Building =>
        /\ number_of_nodes(G) = Cardinality(DistinctNodeIds)
        /\ number_of_edges(G) =
              Len(links_df) - Count(RowDangling) - Count(RowSkippedForWeight)

\* C1 (amended): the node count is the number of distinct Node_ID values and
\* the edge count is the link row count minus the dangling-endpoint skips, the
\* invalid-weight skips and the rows that overwrote the edge an earlier row
\* had made for the same ordered pair.
C1_EdgeCount ==
    Building =>
        /\ number_of_nodes(G) = Cardinality(DistinctNodeIds)
        /\ number_of_edges(G) =
              Len(links_df) - Count(RowDangling) - Count(RowSkippedForWeight)
                  - Count(RowOverwrites)

\* a returned build over two nodes in which a row overwrote an edge
C1_Witness ==
    /\ bpc = "returned"
    /\ Count(RowOverwrites) > 0
    /\ Cardinality(DistinctNodeIds) = 2

----------------------------------------------------------------------------
(* C2 *)

\* C2 (as stated): every edge has both endpoints in the node set and a finite,
\* strictly positive weight; a row whose weight is missing, non-finite or <= 0,
\* or whose endpoint is no node, produces no edge.
C2_Original ==
    Building =>
        /\ \A e \in DOMAIN G.adj :
            /\ e[1] \in DOMAIN G.node /\ e[2] \in DOMAIN G.node
            /\ e[1] \in DistinctNodeIds /\ e[2] \in DistinctNodeIds
            /\ G.adj[e].weight.kind = "num" /\ G.adj[e].weight.v > 0
        /\ \A i \in DOMAIN links_df :
            (RowDangling(i) \/ ~WeightFinitePositive(i)) => ~EdgeFromRow(i)

----------------------------------------------------------------------------
(* C3 *)

\* the errors the taxonomy calls ConfigurationError, as build_graph raises them
ConfigurationError == {"KeyError", "ValueError"}

PeriodColumnAbsent == period # "None" /\ period_col(period) \notin LinkColumns

StaticModeUnknown == period = "None" /\ weight_type \notin {"freeflow", "congested"}

\* C3: a period whose column is absent, and a static mode outside
\* {freeflow, congested}, always fail with a ConfigurationError, before any node
\* or edge is added; every other policy resolves.
C3_ResolutionFails ==
    bpc # "resolve" =>
        /\ (PeriodColumnAbsent \/ StaticModeUnknown) <=> bpc = "raised"
        /\ PeriodColumnAbsent => berror = "KeyError"
        /\ StaticModeUnknown => berror = "ValueError"
        /\ bpc = "raised" =>
              /\ berror \in ConfigurationError
              /\ G = EmptyGraph /\ nodes_df = <<>> /\ links_df = <<>>
        /\ bpc # "raised" => berror = "none"

\* the period's column is absent and build_graph has raised
C3_Witness == bpc = "raised" /\ PeriodColumnAbsent /\ berror = "KeyError"

----------------------------------------------------------------------------
(* C4 *)

----------------------------------------------------------------------------
(* C5 *)

LastRowOf(e, P(_)) ==
    CHOOSE i \in DOMAIN links_df :
        /\ RowPair(i) = e /\ P(i)
        /\ \A j \in DOMAIN links_df : (RowPair(j) = e /\ P(j)) => j <= i

AnyRow(i) == TRUE

\* C5 (as stated): the edge of an ordered pair carries the attribute set of the
\* last record of the link table for that pair.
C5_Original ==
    Building =>
        \A e \in DOMAIN G.adj : G.adj[e] = RowAttrs(LastRowOf(e, AnyRow))

\* C5 (amended): an ordered pair is an edge exactly when a kept record names
\* it, and the edge carries the whole attribute set of the last kept record
\* (one that was not skipped) for that pair; (u,v) and (v,u) are two edges.
C5_LastKeptWins ==
    Building =>
        /\ DOMAIN G.adj = {RowPair(i) : i \in {k \in DOMAIN links_df : RowKept(k)}}
        /\ \A e \in DOMAIN G.adj : G.adj[e] = RowAttrs(LastRowOf(e, RowKept))

\* two kept records of one ordered pair
C5_Witness ==
    /\ Building
    /\ \E i, j \in DOMAIN links_df :
        i < j /\ RowKept(i) /\ RowKept(j) /\ RowPair(i) = RowPair(j)

----------------------------------------------------------------------------
(* The graph as the centrality claims speak of it *)

NodeCount == Cardinality(nodes(G))

InDegree(n)  == Cardinality({e \in edges(G) : e[2] = n})
OutDegree(n) == Cardinality({e \in edges(G) : e[1] = n})

\* for each node, the nodes reached from it along directed edges
ReachFrom == [u \in nodes(G) |-> Closure(edges(G), {u})]

\* for each node, the nodes reached from it when edge directions are ignored
ReachFromUndirected ==
    LET both == edges(G) \cup {<<e[2], e[1]>> : e \in edges(G)}
    IN [u \in nodes(G) |-> Closure(both, {u})]

\* the classes of mutual reachability under the reach table R
MutualClasses(R) ==
    {{v \in DOMAIN R : v \in R[u] /\ u \in R[v]} : u \in DOMAIN R}

\* the size of a largest set of the non-empty family Cs
LargestSize(Cs) ==
    CHOOSE k \in 1..NodeCount :
        /\ \E c \in Cs : Cardinality(c) = k
        /\ \A c \in Cs : Cardinality(c) <= k

\* g is the subgraph of G induced by S
InducedBy(g, S) ==
    /\ nodes(g) = S
    /\ edges(g) = {e \in edges(G) : e[1] \in S /\ e[2] \in S}
    /\ \A e \in edges(g) : g.adj[e] = G.adj[e]

DegreeDone == cpc \notin {"idle", "start", "degree", "raised"} \/ cerror = "RuntimeError"

BaseChosen == component_type # "unset"

----------------------------------------------------------------------------
(* C6 *)

\* C6 (as stated): degree centrality is (in-degree + out-degree)/(n-1); for
\* n >= 2 every value lies in [0, 1], on a complete graph every value is 1.0,
\* and for n = 1 the value is 0.
C6_Original ==
    DegreeDone =>
        \A n \in nodes(G) :
            LET d == degree_centrality.map[n] IN
            /\ NodeCount >= 2 =>
                /\ d.num * (NodeCount - 1) = (InDegree(n) + OutDegree(n)) * d.den
                /\ 0 <= d.num /\ d.num <= d.den
                /\ edges(G) = CompletePairs(NodeCount) => d.num = d.den
            /\ NodeCount = 1 => d.num = 0

\* C6 (amended): degree centrality is (in-degree + out-degree)/(n-1) for
\* n >= 2; every value lies in [0, 2] for a node without a self-loop and in
\* [0, 2 + 2/(n-1)] for a node with one; on a complete digraph every value is
\* 2.0; for n = 1 the value is 1.
C6_DegreeRange ==
    DegreeDone =>
        \A n \in nodes(G) :
            LET d == degree_centrality.map[n] IN
            /\ d.den > 0
            /\ NodeCount >= 2 =>
                /\ d.num * (NodeCount - 1) = (InDegree(n) + OutDegree(n)) * d.den
                /\ 0 <= d.num /\ d.num <= 2 * d.den + 2
                /\ <<n, n>> \notin edges(G) => d.num <= 2 * d.den
                /\ edges(G) = CompletePairs(NodeCount) => d.num = 2 * d.den
            /\ NodeCount = 1 => d.num = d.den

\* the degree centrality of the complete digraph on three nodes is computed
C6_Witness ==
    /\ DegreeDone
    /\ NodeCount = 3
    /\ edges(G) = CompletePairs(3)

----------------------------------------------------------------------------
(* C7 *)

\* C7: the base component is the full graph when it is strongly connected;
\* otherwise the subgraph induced by a largest strongly connected component
\* when that has more than one node; otherwise the subgraph induced by a
\* largest weakly connected component. The weak branch is taken only when no
\* strongly connected component has more than one node.
C7_BaseSelection ==
    BaseChosen =>
        LET R         == ReachFrom
            strong    == MutualClasses(R)
            weak      == MutualClasses(ReachFromUndirected)
            connected == \A u \in nodes(G) : R[u] = nodes(G)
            big       == LargestSize(strong)
        IN  /\ connected =>
                  base_component = G /\ component_type = "strongly"
            /\ (~connected /\ big > 1) =>
                  /\ component_type = "strongly"
                  /\ \E c \in strong :
                        /\ Cardinality(c) = big
                        /\ InducedBy(base_component, c)
            /\ (~connected /\ big = 1) =>
                  /\ component_type = "weakly"
                  /\ \E c \in weak :
                        /\ Cardinality(c) = LargestSize(weak)
                        /\ InducedBy(base_component, c)
            /\ component_type = "weakly" =>
                  \A c \in strong : Cardinality(c) = 1

\* the chain 1->2->3 has taken the weakly connected branch
C7_Witness ==
    /\ BaseChosen
    /\ NodeCount = 3
    /\ edges(G) = {<<1, 2>>, <<2, 3>>}
    /\ component_type = "weakly"
    /\ nodes(base_component) = {1, 2, 3}

----------------------------------------------------------------------------
(* C8 *)

DirectedWeighted     == [graph |-> "directed", use_weight |-> TRUE,
                         max_iter |-> MaxIter, tol_exp |-> TolExp]
UndirectedWeighted   == [graph |-> "undirected", use_weight |-> TRUE,
                         max_iter |-> MaxIter, tol_exp |-> TolExp]
UndirectedUnweighted == [graph |-> "undirected", use_weight |-> FALSE,
                         max_iter |-> MaxIter, tol_exp |-> TolExp]
Relaxed              == [graph |-> "undirected", use_weight |-> FALSE,
                         max_iter |-> RelaxedMaxIter, tol_exp |-> RelaxedTolExp]

\* the order of the calls, the relaxed one last
CallOrder ==
    IF component_type = "weakly"
    THEN <<UndirectedWeighted, DirectedWeighted, UndirectedWeighted,
           UndirectedUnweighted, Relaxed>>
    ELSE <<DirectedWeighted, UndirectedWeighted, UndirectedUnweighted, Relaxed>>

\* C8: the calls of the eigenvector computation are a prefix of the fixed
\* order (strong base: directed weighted, undirected weighted, undirected
\* unweighted; weak base: undirected weighted first, then those three), then
\* the one relaxed call; no call follows a converged one, so the relaxed call
\* is made only after every attempt failed; ConvergenceError (RuntimeError) is
\* raised exactly when the relaxed call failed; at most 4 calls (strong base)
\* or 5 (weak base) are made.
C8_AttemptOrder ==
    /\ ~BaseChosen => calls = <<>>
    /\ BaseChosen =>
        /\ Len(calls) <= Len(CallOrder)
        /\ Len(calls) <= (IF component_type = "weakly" THEN 5 ELSE 4)
        /\ \A i \in DOMAIN calls :
            /\ calls[i].call = CallOrder[i]
            /\ calls[i].ok => i = Len(calls)
        /\ cerror = "RuntimeError" <=>
              (Len(calls) = Len(CallOrder) /\ ~calls[Len(calls)].ok)
        /\ cerror = "RuntimeError" => cpc = "raised"
        /\ cpc \in {"project", "return", "returned"} =>
              (calls # <<>> /\ calls[Len(calls)].ok)
        /\ (calls # <<>> /\ calls[Len(calls)].ok) =>
              cpc \in {"after_loop", "project", "return", "returned"}

\* a weak base on which all four attempts failed and the relaxed call converged
C8_Witness ==
    /\ component_type = "weakly"
    /\ Len(calls) = 5
    /\ calls[5].ok
    /\ cpc = "returned"

----------------------------------------------------------------------------
(* C9 *)

\* C9 (as stated): when the eigenvector computation ends in ConvergenceError
\* (RuntimeError), the degree and betweenness maps already computed are still
\* delivered to the caller.
C9_Original ==
    cerror = "RuntimeError" =>
        /\ result.returned
        /\ result.degree = degree_centrality.map
        /\ result.betweenness = betweenness_centrality.map

----------------------------------------------------------------------------
(* C10 *)

\* C10: when compute_centrality_measures returns, each of the three maps has
\* the node set of the graph as its domain; in the eigenvector map a node
\* outside the base component has 0.0 and a node inside it has the score the
\* converged call gave it.
C10_FullDomain ==
    cpc = "returned" =>
        /\ result.returned
        /\ DOMAIN result.degree = nodes(G)
        /\ DOMAIN result.betweenness = nodes(G)
        /\ DOMAIN result.eigenvector = nodes(G)
        /\ DOMAIN eigenvector_centrality.map = nodes(base_component)
        /\ \A n \in nodes(G) :
            /\ n \notin nodes(base_component) => result.eigenvector[n] = 0
            /\ n \in nodes(base_component) =>
                  /\ result.eigenvector[n] = eigenvector_centrality.map[n]
                  /\ result.eigenvector[n] \in ScoreVals

\* returned with a node outside the base component
C10_Witness ==
    /\ cpc = "returned"
    /\ nodes(base_component) # nodes(G)
    /\ NodeCount = 3

----------------------------------------------------------------------------
(* C11 *)

RECURSIVE SumOf(_)
SumOf(l) == IF l = <<>> THEN 0 ELSE Head(l) + SumOf(Tail(l))

\* the nodes to which the partition p gives the community id c
Members(p, c) == {n \in DOMAIN p : p[n] = c}

\* C11: what detect_communities returns for a non-empty graph is consistent:
\* the partition has one entry for every node of the graph and for nothing
\* else; community_count is the number of distinct community ids; the size
\* histogram lists one size per community (every size as often as communities
\* have it), is sorted in descending order and sums to the node count.
C11_OutputConsistent ==
    communities.returned =>
        LET p   == communities.partition
            h   == communities.size_list
            ids == {p[n] : n \in DOMAIN p}
        IN  /\ nodes(G) # {}
            /\ DOMAIN p = nodes(G)
            /\ communities.num_communities = Cardinality(ids)
            /\ Len(h) = Cardinality(ids)
            /\ \A k \in 1..Cardinality(nodes(G)) :
                  Cardinality({i \in DOMAIN h : h[i] = k})
                    = Cardinality({c \in ids : Cardinality(Members(p, c)) = k})
            /\ \A i, j \in DOMAIN h : i < j => h[i] >= h[j]
            /\ SumOf(h) = Cardinality(nodes(G))

\* three nodes returned in two communities, the smaller one having the
\* smaller id
C11_Witness ==
    /\ communities.returned
    /\ NodeCount = 3
    /\ communities.partition = (1 :> 0) @@ (2 :> 1) @@ (3 :> 1)
    /\ communities.size_list = <<2, 1>>

----------------------------------------------------------------------------
(* C12 *)

\* C12: on a graph without nodes, compute_centrality_measures and
\* detect_communities end in the empty-graph error (ValueError) and in nothing
\* else, before anything is computed: no centrality map, no base component,
\* no eigenvector call; no undirected projection, no partition, and the error
\* is the empty-graph one even when the community-detection module is
\* missing. On a graph with nodes, a missing community-detection module ends
\* detect_communities in the dependency error (ImportError), raised by the
\* call (the failed import of lines 7-10 raises nothing), before a partition
\* is computed; neither error arises otherwise.
C12_EmptyGraphFirst ==
    /\ (cpc \notin {"idle", "start"} /\ nodes(G) = {}) =>
          /\ cerror = "ValueError" /\ cpc = "raised"
          /\ degree_centrality = NoMap
          /\ betweenness_centrality = NoMap
          /\ component_type = "unset"
          /\ calls = <<>>
          /\ ~result.returned
    /\ cerror = "ValueError" => nodes(G) = {}
    /\ (dpc \notin {"idle", "start"} /\ nodes(G) = {}) =>
          /\ derror = "ValueError" /\ dpc = "raised"
          /\ undirected = NoGraph
          /\ partition = NoMap
          /\ ~communities.returned
    /\ derror = "ValueError" => nodes(G) = {}
    /\ (dpc \notin {"idle", "start", "project", "dependency"}
          /\ nodes(G) # {} /\ community_louvain = "None") =>
          /\ derror = "ImportError" /\ dpc = "raised"
          /\ partition = NoMap
          /\ ~communities.returned
    /\ derror = "ImportError" => (community_louvain = "None" /\ nodes(G) # {})
    /\ dpc \in {"louvain", "sizes", "gate", "sample", "split", "return", "returned"}
          => (community_louvain # "None" /\ nodes(G) # {})

\* detect_communities has raised on a graph without nodes while the
\* community-detection module is missing
C12_Witness ==
    /\ dpc = "raised"
    /\ nodes(G) = {}
    /\ community_louvain = "None"
    /\ derror = "ValueError"

----------------------------------------------------------------------------
(* C13 *)

\* the refinement has been entered (line 41 was true)
RefinementRan == sub_nodes # NoList

\* the number of neighbours of n in the undirected projection, a self-loop
\* counted twice
ProjectedDegree(n) ==
    Cardinality({m \in nodes(G) \ {n} : <<n, m>> \in edges(G) \/ <<m, n>> \in edges(G)})
      + (IF <<n, n>> \in edges(G) THEN 2 ELSE 0)

\* the refinement's condition, its sample and its single split, and the
\* result, as states show them
C13_RefinementState ==
    /\ dpc \in {"sample", "split"} =>
          (run_gn_sample /\ NodeCount > gn_max_nodes)
    /\ dpc \in {"return", "returned"} =>
          (RefinementRan <=> (run_gn_sample /\ NodeCount > gn_max_nodes))
    /\ dpc \notin {"return", "returned"} => first_split = NoSplit
    /\ (dpc \in {"return", "returned"} /\ RefinementRan) =>
          first_split.kind \in {"split", "StopIteration"}
    /\ ~RefinementRan => (gn_subgraph = NoGraph /\ first_split = NoSplit)
    /\ gn_subgraph # NoGraph =>
          LET S == nodes(gn_subgraph.g)
              U == undirected.g
          IN  /\ RefinementRan
              /\ S \subseteq nodes(G)
              /\ Cardinality(S) = gn_max_nodes
              /\ \A n \in S : \A m \in nodes(G) \ S :
                    ProjectedDegree(n) >= ProjectedDegree(m)
              /\ edges(gn_subgraph.g) = {e \in edges(U) : e[1] \in S /\ e[2] \in S}
              /\ \A e \in edges(gn_subgraph.g) : gn_subgraph.g.adj[e] = U.adj[e]
    /\ first_split.kind = "split" =>
          LET comms  == {first_split.comms[i] : i \in DOMAIN first_split.comms}
              proper == {e \in edges(gn_subgraph.g) : e[1] # e[2]}
              whole  == MutualClasses([u \in nodes(gn_subgraph.g) |->
                                         Closure(edges(gn_subgraph.g), {u})])
          IN  /\ UNION comms = nodes(gn_subgraph.g)
              /\ \A c \in comms : c # {}
              /\ \A c, d \in comms : c # d => c \cap d = {}
              /\ Cardinality(comms) = Len(first_split.comms)
              /\ \A c \in comms : \E w \in whole : c \subseteq w
              /\ Cardinality(comms)
                    = Cardinality(whole) + (IF proper = {} THEN 0 ELSE 1)
    /\ first_split.kind = "StopIteration" => derror = "none"
    /\ (first_split.kind = "StopIteration" /\ dpc = "returned") =>
          communities.returned
    /\ communities.returned =>
          /\ derror = "none"
          /\ partition # NoMap
          /\ communities.partition = partition.map
          /\ communities.num_communities
                = Cardinality({partition.map[n] : n \in nodes(G)})
          /\ communities.size_list = calc_sizes(partition.map).size_list

\* from the modularity run on, no step changes the partition, the community
\* count or the size list, and no step changes the graph given
C13_RefinementStep ==
    /\ G' = G
    /\ dpc \in {"gate", "sample", "split", "return"} =>
          /\ partition' = partition
          /\ num_communities' = num_communities
          /\ size_list' = size_list

\* C13: the refinement runs if and only if run_gn_sample is true and the
\* undirected graph has more than gn_max_nodes nodes; it works on the subgraph
\* induced by gn_max_nodes nodes of highest degree and takes one split only;
\* whether it runs or not, yields a split or none, what is returned is the
\* partition, count and size list of the modularity run, the graph given is
\* not modified, and a generator that yields nothing is not an error.
C13_RefinementIsDiagnostic ==
    []C13_RefinementState /\ [][C13_RefinementStep]_vars

\* the generator yielded nothing (the sample has self-loops only) and
\* detect_communities returned
C13_Witness ==
    /\ first_split.kind = "StopIteration"
    /\ communities.returned
    /\ NodeCount > gn_max_nodes

====
